---- MODULE Spec2Model ----
(***************************************************************************)
(* A model of the scraping pipeline of the Telegram product bot:           *)
(*   - EcommerceScraper.get_page      (retrying HTTP fetch)                *)
(*   - FlipkartScraper/AmazonScraper.get_products and scrape_products      *)
(*   - EcommerceScraper.load_product_cache / save_to_cache                 *)
(* Each of the three parts has its own specification (FetchSpec,           *)
(* CollectSpec, CacheSpec) over the same variables.                        *)
(***************************************************************************)
EXTENDS Integers, Sequences, FiniteSets, TLC

VARIABLES
    \* ---- get_page: one call of EcommerceScraper.get_page
    fpc,            \* "idle" | "delay" | "request" | "backoff" | "returned" | "cancelled"
    attempt,        \* the loop variable of "for attempt in range(max_retries)"
    trace,          \* what the call did so far: delays, requests, backoff waits
    ret,            \* the returned (body, status)
    \* ---- scrape_products: one call
    pc,             \* "idle" | "loop" | "done"
    platform,       \* the platform argument
    num_products,   \* the num_products argument
    session,        \* scraper.session: "none" | "open" | "closed"
    catIdx,         \* index (1-based) of the next category of the for loop
    all_products,   \* the accumulator
    calls,          \* log of the get_products calls: category, products, status
    result,         \* the returned list
    \* ---- the cache
    cacheFile,      \* content of config.CACHE_FILE
    now,            \* datetime.now(), in seconds
    ticks,          \* number of clock advances (bounds the clock)
    products_cache, \* self.products_cache / the value load_product_cache returned
    lastOp,         \* the latest cache call: "none" | "save" | "savefail" | "load"
    lastWrite,      \* the latest save_to_cache: "none" | "save" | "savefail"
    savedX,         \* the mapping of the envelope in the file, as save_to_cache got it
    savedAt,        \* clock value at that save_to_cache
    loadedAt,       \* clock value at the last load_product_cache
    raised,         \* exception that escaped the latest cache call, or "none"
    \* ---- save_to_cache in two processes sharing the file, and a reader of it
    disk,           \* the bytes of config.CACHE_FILE
    wpc,            \* per writer: "idle" | "open" | "closed"
    wdoc,           \* per writer: the bytes of the JSON text of its envelope
    wpos,           \* per writer: the offset of its file object, in bytes
    seen,           \* what the latest read of the whole file returned
    rpc,            \* the reader: "idle" | "reading"
    rpos,           \* the offset of the reader's file object
    rbuf,           \* what the reader's read() calls have returned so far
    \* ---- get_products from the parse on (lines 130-153 and 211-233)
    xpc,            \* "idle" | "parsed"
    soupSite,       \* the scraper class that parses
    soup,           \* the parsed document
    found,          \* "containers" when the selector loop ends
    parsed,         \* what get_products returns: products and status
    \* ---- the handlers of bot.py
    bpc,            \* "idle" | "reply" | "scraping" | "loop" | "sleep" | "done"
    handler,        \* the handler running or run last, "none" before the first
    updKind,        \* which fields the update has (UpdateKinds)
    args,           \* context.args of the /post command
    requested,      \* num_products passed to scrape_products, -1 if not called
    scraped,        \* "products": what scrape_products returned
    idx,            \* the product the loop of post_products is at
    sendOk,         \* Telegram's answer to each message sent to the channel
    sent,           \* messages the channel received
    success_count,  \* success_count
    pending,        \* the text handed to send_message last
    cont,           \* where the handler goes on after that send_message
    replies,        \* replies the user received for this update
    \* ---- the session of one scraper instance and its headers
    userAgent,      \* the User-Agent header of self.session, "none" without one
    created,        \* how many times aiohttp.ClientSession() was constructed
    firstUA,        \* the User-Agent chosen at the first construction
    scalls,         \* the calls made on the instance, in order
    wire,           \* the User-Agent of every request sent, in order
    gpc,            \* the get_products call: "idle" | "delay" | "request" | "backoff"
                    \* | "cancelled"
    gattempt,       \* "attempt" of its get_page
    gstatus         \* the status its get_page returned last, 0 before

fetchVars   == <<fpc, attempt, trace, ret>>
collectVars == <<pc, platform, num_products, session, catIdx, all_products, calls, result>>
cacheVars   == <<cacheFile, now, ticks, products_cache, lastOp, lastWrite, savedX,
                 savedAt, loadedAt, raised>>
concVars    == <<disk, wpc, wdoc, wpos, seen, rpc, rpos, rbuf>>
extractVars == <<xpc, soupSite, soup, found, parsed>>
botVars     == <<bpc, handler, updKind, args, requested, scraped, idx, sendOk, sent,
                 success_count, pending, cont, replies>>
sessVars    == <<userAgent, created, firstUA, scalls, wire, gpc, gattempt, gstatus>>
newVars     == <<concVars, extractVars, botVars, sessVars>>
vars        == <<fetchVars, collectVars, cacheVars, newVars>>

----------------------------------------------------------------------------
(* Bounds of the model *)

MaxYield  == 4      \* most product containers on one search page
MaxTarget == 5      \* largest num_products asked for
MaxTicks  == 3      \* clock advances in one behaviour
MaxCached == 1      \* longest product list under one key of a saved mapping
MaxDocLen == 3      \* most bytes of the JSON text of an envelope
MaxChunkLen == 2    \* most bytes one write() call is handed
MaxElems  == 4      \* most elements inside one product container
MaxBlocks == 2      \* most top-level blocks of a page of several containers
MaxArgLen == 2      \* most characters of the argument of /post
MaxScraped == 3     \* most products the sites have for a /post
MaxCalls  == 4      \* most calls made on one scraper instance

----------------------------------------------------------------------------
(* Values *)

EmptyBody == <<>>                     \* the string ""
Titles    == <<"t1", "t2", "t3">>     \* product titles the sites list

\* ---- HTML documents.  A node is an element with its tag, its classes, its
\* attributes (name and value), its text (a sequence of characters, runs of
\* other characters standing for one) and its children in document order.
\* A page is the sequence of its top-level elements.
Node(tag, classes, attrs, text, kids) ==
    [tag |-> tag, classes |-> classes, attrs |-> attrs, text |-> text, kids |-> kids]
Attr(n, v) == [name |-> n, value |-> v]

HasAttr(el, n) == \E a \in el.attrs : a.name = n
AttrVal(el, n) == (CHOOSE a \in el.attrs : a.name = n).value

\* str.strip()
Whitespace == {" ", "\n"}
RECURSIVE LStrip(_)
LStrip(s) == IF s # <<>> /\ Head(s) \in Whitespace THEN LStrip(Tail(s)) ELSE s
RECURSIVE RStrip(_)
RStrip(s) == IF s # <<>> /\ s[Len(s)] \in Whitespace
             THEN RStrip(SubSeq(s, 1, Len(s) - 1)) ELSE s
Strip(s) == RStrip(LStrip(s))

\* urljoin(base, href): an absolute href stands, a relative one is resolved
\* against the base
AbsolutePrefix == "https:"
IsAbsolute(href) == href # <<>> /\ Head(href) = AbsolutePrefix
UrlJoin(base, href) == IF IsAbsolute(href) THEN href ELSE <<base>> \o href

\* ---- CSS selectors.  tag.class1.class2, tag[name="value"], and the
\* descendant combinator "ancestor selector" with one ancestor.
Sel(tag, classes) == [tag |-> tag, classes |-> classes, attrs |-> {}, anc |-> <<>>]
SelAttr(tag, n, v) == [tag |-> tag, classes |-> {}, attrs |-> {Attr(n, v)}, anc |-> <<>>]
SelIn(outer, inner) == [inner EXCEPT !.anc = <<outer>>]

MatchesCompound(el, sel) ==
    /\ el.tag = sel.tag
    /\ sel.classes \subseteq el.classes
    /\ sel.attrs \subseteq el.attrs

\* An entry is an element of the document together with its ancestors
Matches(e, sel) ==
    /\ MatchesCompound(e.el, sel)
    /\ sel.anc = <<>> \/ \E i \in DOMAIN e.anc : MatchesCompound(e.anc[i], sel.anc[1])

\* The descendants of a sequence of sibling nodes, in document order
RECURSIVE Descendants(_, _)
Descendants(kids, ancs) ==
    IF kids = <<>> THEN <<>>
    ELSE << [el |-> Head(kids), anc |-> ancs] >>
         \o Descendants(Head(kids).kids, Append(ancs, Head(kids)))
         \o Descendants(Tail(kids), ancs)

MatchesAny(e, group) == \E i \in DOMAIN group : Matches(e, group[i])

\* soup.select(selector)
Select(page, sel) == SelectSeq(Descendants(page, <<>>), LAMBDA e : Matches(e, sel))

\* container.select_one("s1, s2, ..."): None, or the first element of the
\* container, in document order, that matches any selector of the group
NoMatch == <<>>
RECURSIVE FirstMatch(_, _)
FirstMatch(entries, group) ==
    IF entries = <<>> THEN NoMatch
    ELSE IF MatchesAny(Head(entries), group) THEN << Head(entries).el >>
    ELSE FirstMatch(Tail(entries), group)
SelectOne(c, group) == FirstMatch(Descendants(c.el.kids, Append(c.anc, c.el)), group)

\* ---- The two sites
\* The scraper classes
Scrapers == {"FlipkartScraper", "AmazonScraper"}

FlipkartContainerSelectors ==
    << Sel("div", {"_1xHGtK", "_373qXS"}), Sel("div", {"_2kHMtA"}), Sel("div", {"_1AtVbE"}),
       Sel("div", {"_4ddWXP"}), Sel("div", {"_2B099V"}) >>
FlipkartFieldSelectors ==
    [ title       |-> << Sel("div", {"_4rR01T"}), Sel("div", {"_2WkVRV"}), Sel("div", {"_2B099V"}),
                         Sel("div", {"_3pLy-c"}), Sel("div", {"_4ddWXP"}) >>,
      description |-> << Sel("a", {"IRpwTa"}), Sel("a", {"_2UzuFa"}), Sel("a", {"_3Djpdu"}),
                         Sel("div", {"_3pLy-c"}), Sel("div", {"_4ddWXP"}) >>,
      price       |-> << Sel("div", {"_30jeq3"}), Sel("div", {"_30jeq3", "_1_WHN1"}),
                         Sel("div", {"_30jeq3", "_16Jk6d"}), Sel("div", {"_30jeq3", "_3qU9Bn"}) >>,
      rating      |-> << Sel("div", {"_3LWZlK"}), Sel("span", {"_2_R_DZ"}),
                         Sel("div", {"_3LWZlK", "_1rdVr6"}) >>,
      reviews     |-> << Sel("span", {"_2_R_DZ"}),
                         SelIn(Sel("span", {"_2_R_DZ"}), Sel("span", {})),
                         Sel("span", {"_3LWZlK", "_1rdVr6"}) >>,
      link        |-> << Sel("a", {"_1fQZEK"}), Sel("a", {"_2UzuFa"}), Sel("a", {"_3Djpdu"}),
                         Sel("a", {"_2rpwqI"}) >>,
      image       |-> << Sel("img", {"_396cs4"}), Sel("img", {"_2r_T1I"}),
                         Sel("img", {"_2r_T1I", "_2r_T1I"}), Sel("img", {"_396cs4", "_3exPp9"}) >> ]

AmazonContainerSelectors ==
    << Sel("div", {"s-result-item"}), Sel("div", {"a-section", "a-spacing-base"}),
       Sel("div", {"a-section", "a-spacing-none"}),
       SelAttr("div", "data-component-type", "s-search-result") >>
AmazonFieldSelectors ==
    [ title       |-> << Sel("span", {"a-size-medium"}), Sel("span", {"a-size-base-plus"}),
                         Sel("h2", {"a-size-mini"}) >>,
      description |-> << Sel("a", {"a-link-normal"}), Sel("a", {"a-text-normal"}),
                         Sel("h2", {"a-size-mini"}) >>,
      price       |-> << Sel("span", {"a-price-whole"}), Sel("span", {"a-offscreen"}),
                         Sel("span", {"a-price"}) >>,
      rating      |-> << Sel("span", {"a-icon-alt"}), Sel("i", {"a-icon-star"}) >>,
      reviews     |-> << Sel("span", {"a-size-base"}),
                         Sel("span", {"a-size-base", "s-underline-text"}) >>,
      link        |-> << Sel("a", {"a-link-normal"}), Sel("a", {"a-text-normal"}) >>,
      image       |-> << Sel("img", {"s-image"}), Sel("img", {"a-dynamic-image"}) >> ]

\* BASE_URL and the selectors of a scraper class
ScraperSite(k) ==
    IF k = "AmazonScraper"
    THEN [name |-> "Amazon", base |-> "https://www.amazon.in",
          containers |-> AmazonContainerSelectors, fields |-> AmazonFieldSelectors]
    ELSE [name |-> "Flipkart", base |-> "https://www.flipkart.com",
          containers |-> FlipkartContainerSelectors, fields |-> FlipkartFieldSelectors]

\* str.lower(), a string being the sequence of its characters
Lower(str) ==
    LET upper == << "A", "B", "C", "D", "E", "F", "G", "H", "I", "J", "K", "L", "M",
                    "N", "O", "P", "Q", "R", "S", "T", "U", "V", "W", "X", "Y", "Z" >>
        lower == << "a", "b", "c", "d", "e", "f", "g", "h", "i", "j", "k", "l", "m",
                    "n", "o", "p", "q", "r", "s", "t", "u", "v", "w", "x", "y", "z" >>
        LowerChar(ch) ==
            IF \E i \in DOMAIN upper : upper[i] = ch
            THEN lower[CHOOSE i \in DOMAIN upper : upper[i] = ch]
            ELSE ch
    IN  [i \in 1..Len(str) |-> LowerChar(str[i])]

\* get_scraper: AmazonScraper if platform.lower() == 'amazon', else
\* FlipkartScraper
GetScraper(p) ==
    IF Lower(p) = <<"a", "m", "a", "z", "o", "n">> THEN "AmazonScraper" ELSE "FlipkartScraper"
SiteOf(p) == ScraperSite(GetScraper(p))

\* The platform arguments: the default, the two spellings of the other site,
\* and a name get_scraper does not know
DefaultPlatform == <<"f", "l", "i", "p", "k", "a", "r", "t">>
Platforms ==
    { DefaultPlatform, <<"a", "m", "a", "z", "o", "n">>, <<"A", "m", "a", "z", "o", "n">>,
      <<"e", "b", "a", "y">> }

\* ---- Markup the sites serve.  For each site: two title elements (for the
\* first and the second title selector), a price, a link with a relative
\* href, one with an absolute href and one with no href, a rating, a review
\* count, an image with and without src, and a description.
Leaf(tag, cls, attrs, text) == Node(tag, {cls}, attrs, text, <<>>)

Markup(p) ==
    LET fk == p # "AmazonScraper"
    IN  [ T1 |-> Leaf(IF fk THEN "div" ELSE "span", IF fk THEN "_4rR01T" ELSE "a-size-medium",
                      {}, <<"\n", "A", " ">>),
          T2 |-> Leaf(IF fk THEN "div" ELSE "span", IF fk THEN "_2WkVRV" ELSE "a-size-base-plus",
                      {}, <<"B">>),
          P  |-> Leaf(IF fk THEN "div" ELSE "span", IF fk THEN "_30jeq3" ELSE "a-price-whole",
                      {}, <<"99">>),
          L  |-> Leaf("a", IF fk THEN "_1fQZEK" ELSE "a-text-normal",
                      {Attr("href", <<"/p">>)}, <<>>),
          LA |-> Leaf("a", IF fk THEN "_2rpwqI" ELSE "a-text-normal",
                      {Attr("href", <<AbsolutePrefix, "//x/p">>)}, <<>>),
          L0 |-> Leaf("a", IF fk THEN "_1fQZEK" ELSE "a-text-normal", {}, <<>>),
          R  |-> Leaf(IF fk THEN "div" ELSE "span", IF fk THEN "_3LWZlK" ELSE "a-icon-alt",
                      {}, <<"4.5">>),
          V  |-> Leaf("span", IF fk THEN "_2_R_DZ" ELSE "a-size-base", {}, <<" ", "10">>),
          I  |-> Leaf("img", IF fk THEN "_396cs4" ELSE "s-image", {Attr("src", <<"//i/1">>)}, <<>>),
          I0 |-> Leaf("img", IF fk THEN "_396cs4" ELSE "s-image", {}, <<>>),
          D  |-> Leaf(IF fk THEN "a" ELSE "h2", IF fk THEN "IRpwTa" ELSE "a-size-mini",
                      {}, <<"d">>) ]

\* A product container of the site's first container selector
ContainerOf(p, kids) == Node("div", ScraperSite(p).containers[1].classes, {}, <<>>, kids)

MkContainer(p, t, complete) ==
    ContainerOf(p, << [Markup(p).T1 EXCEPT !.text = <<t>>] >>
                   \o (IF complete THEN << Markup(p).P >> ELSE <<>>)
                   \o << Markup(p).L >>)

\* The page site p serves for category number c: n complete containers,
\* preceded by one container without a price when "gap" is set.  The same
\* title shows up under several categories.
SitePage(p, c, n, gap) ==
    (IF gap THEN <<MkContainer(p, "t0", FALSE)>> ELSE <<>>) \o
    [i \in 1..n |-> MkContainer(p, Titles[((c + i) % Len(Titles)) + 1], TRUE)]

\* What one request attempt meets: an exception in the try block
\* (transport failure), or a response with a status and a body.
Exc == [kind |-> "exc", status |-> 0, text |-> EmptyBody]
Resp(s, b) == [kind |-> "resp", status |-> s, text |-> b]

HttpStatuses == {200, 429, 404, 503}
FetchBodies  == {SitePage("FlipkartScraper", 1, 1, FALSE), SitePage("AmazonScraper", 2, 2, FALSE)}
FetchAnswers == {Exc} \cup {Resp(s, b) : s \in HttpStatuses, b \in FetchBodies}

\* random.uniform(1, 3), to the second
Delays == {1, 2, 3}

----------------------------------------------------------------------------
(* EcommerceScraper.get_page *)

max_retries == 3

RateLimitWait_Flat(a) == 5
RateLimitWait(a) == (a + 1) * 5

ErrorWait_ZeroBased(a) == a * 2
ErrorWait(a) == (a + 1) * 2

NoReturn == [body |-> EmptyBody, status |-> 0]     \* nothing returned (yet)

\* "return '', 500" of the except branch, on the last attempt
FailureReturn == [body |-> EmptyBody, status |-> 500]

\* "return '', 500" after the for loop
ExhaustedReturn_LastStatus == [body |-> EmptyBody, status |-> 429]
ExhaustedReturn == [body |-> EmptyBody, status |-> 500]

HandleAnswer_TwoAttempts(a, ans) ==
    IF ans.kind = "exc"
    THEN IF a < max_retries - 1
         THEN [done |-> FALSE, wait |-> ErrorWait(a), ret |-> NoReturn]
         ELSE [done |-> TRUE, wait |-> 0, ret |-> FailureReturn]
    ELSE IF ans.status = 200
         THEN [done |-> TRUE, wait |-> 0, ret |-> [body |-> ans.text, status |-> ans.status]]
         ELSE IF ans.status = 429 /\ a < max_retries - 2
              THEN [done |-> FALSE, wait |-> RateLimitWait(a), ret |-> NoReturn]
              ELSE [done |-> TRUE, wait |-> 0, ret |-> [body |-> EmptyBody, status |-> ans.status]]

HandleAnswer_RetryServerError(a, ans) ==
    IF ans.kind = "exc"
    THEN IF a < max_retries - 1
         THEN [done |-> FALSE, wait |-> ErrorWait(a), ret |-> NoReturn]
         ELSE [done |-> TRUE, wait |-> 0, ret |-> FailureReturn]
    ELSE IF ans.status = 200
         THEN [done |-> TRUE, wait |-> 0, ret |-> [body |-> ans.text, status |-> ans.status]]
         ELSE IF ans.status = 429 \/ ans.status >= 500
              THEN [done |-> FALSE, wait |-> RateLimitWait(a), ret |-> NoReturn]
              ELSE [done |-> TRUE, wait |-> 0, ret |-> [body |-> EmptyBody, status |-> ans.status]]

\* The body of the for loop after the pre-request delay, for attempt a
\* meeting answer ans: either the call returns (done) or it sleeps "wait"
\* seconds and goes on to the next attempt.
HandleAnswer_KeepsBody(a, ans) ==
    IF ans.kind = "exc"
    THEN IF a < max_retries - 1
         THEN [done |-> FALSE, wait |-> ErrorWait(a), ret |-> NoReturn]
         ELSE [done |-> TRUE, wait |-> 0, ret |-> FailureReturn]
    ELSE IF ans.status = 429
         THEN [done |-> FALSE, wait |-> RateLimitWait(a), ret |-> NoReturn]
         ELSE [done |-> TRUE, wait |-> 0, ret |-> [body |-> ans.text, status |-> ans.status]]

HandleAnswer(a, ans) ==
    IF ans.kind = "exc"
    THEN IF a < max_retries - 1
         THEN [done |-> FALSE, wait |-> ErrorWait(a), ret |-> NoReturn]
         ELSE [done |-> TRUE, wait |-> 0, ret |-> FailureReturn]
    ELSE IF ans.status = 200
         THEN [done |-> TRUE, wait |-> 0, ret |-> [body |-> ans.text, status |-> ans.status]]
         ELSE IF ans.status = 429
              THEN [done |-> FALSE, wait |-> RateLimitWait(a), ret |-> NoReturn]
              ELSE [done |-> TRUE, wait |-> 0, ret |-> [body |-> EmptyBody, status |-> ans.status]]

\* Events of the trace of a call: the pre-request sleep, the request with the
\* answer it met, the sleep before the next attempt.
DelayEv(d)   == [kind |-> "delay", secs |-> d, ans |-> Exc]
RequestEv(x) == [kind |-> "request", secs |-> 0, ans |-> x]
BackoffEv(w) == [kind |-> "backoff", secs |-> w, ans |-> Exc]

\* The call runs up to its first await: the pre-request sleep of attempt 0
GetPageCall ==
    /\ fpc = "idle"
    /\ \E d \in Delays : trace' = Append(trace, DelayEv(d))
    /\ attempt' = 0
    /\ fpc' = "delay"
    /\ UNCHANGED ret
    /\ UNCHANGED <<collectVars, cacheVars>>
    /\ UNCHANGED newVars

\* The pre-request sleep ends and the request is sent: the call waits for
\* the answer
GetPageSend ==
    /\ fpc = "delay"
    /\ fpc' = "request"
    /\ UNCHANGED <<attempt, trace, ret>>
    /\ UNCHANGED <<collectVars, cacheVars>>
    /\ UNCHANGED newVars

\* The answer arrives: the call returns, or starts the sleep before the next
\* attempt
GetPageAnswer ==
    /\ fpc = "request"
    /\ \E ans \in FetchAnswers :
         LET h == HandleAnswer(attempt, ans)
             t1 == Append(trace, RequestEv(ans))
         IN  IF h.done
             THEN /\ trace' = t1
                  /\ ret' = h.ret
                  /\ fpc' = "returned"
             ELSE /\ trace' = Append(t1, BackoffEv(h.wait))
                  /\ fpc' = "backoff"
                  /\ UNCHANGED ret
    /\ UNCHANGED attempt
    /\ UNCHANGED <<collectVars, cacheVars>>
    /\ UNCHANGED newVars

\* The sleep after an attempt ends and the next iteration starts its
\* pre-request sleep
GetPageRetry ==
    /\ fpc = "backoff"
    /\ attempt + 1 < max_retries
    /\ attempt' = attempt + 1
    /\ \E d \in Delays : trace' = Append(trace, DelayEv(d))
    /\ fpc' = "delay"
    /\ UNCHANGED ret
    /\ UNCHANGED <<collectVars, cacheVars>>
    /\ UNCHANGED newVars

\* The sleep after the last attempt ends: the return after the for loop
GetPageExhausted ==
    /\ fpc = "backoff"
    /\ attempt + 1 >= max_retries
    /\ ret' = ExhaustedReturn
    /\ fpc' = "returned"
    /\ UNCHANGED <<attempt, trace>>
    /\ UNCHANGED <<collectVars, cacheVars>>
    /\ UNCHANGED newVars

\* The task is cancelled while the call is suspended in a sleep or in the
\* request: CancelledError is no Exception, it leaves get_page
GetPageCancel ==
    /\ fpc \in {"delay", "request", "backoff"}
    /\ fpc' = "cancelled"
    /\ UNCHANGED <<attempt, trace, ret>>
    /\ UNCHANGED <<collectVars, cacheVars>>
    /\ UNCHANGED newVars

\* get_page as a function of the answers its attempts meet (answers[i] is
\* what attempt i-1 meets): the same loop, run to its return.
RECURSIVE GetPageFrom(_, _)
GetPageFrom(a, answers) ==
    IF a >= max_retries
    THEN ExhaustedReturn
    ELSE LET h == HandleAnswer(a, answers[a + 1])
         IN  IF h.done THEN h.ret ELSE GetPageFrom(a + 1, answers)

GetPage(answers) == GetPageFrom(0, answers)

----------------------------------------------------------------------------
(* The cache file: load_product_cache, save_to_cache *)

CACHE_EXPIRY_DAYS == 1
SecondsPerDay     == 86400
ExpiryWindow      == CACHE_EXPIRY_DAYS * SecondsPerDay    \* timedelta(days=...)

CacheMissing    == [kind |-> "missing"]      \* os.path.exists is false
CacheUnreadable == [kind |-> "unreadable"]   \* open() raises
CacheCorrupt    == [kind |-> "corrupt"]      \* not a JSON document
CacheTooDeep    == [kind |-> "too deep"]     \* nested beyond the recursion limit
EmptyMapping == <<>>                      \* {}

\* datetime.isoformat / datetime.fromisoformat: a date part and a time part
IsoFormat(t)     == [date |-> t \div SecondsPerDay, time |-> t % SecondsPerDay]
FromIsoFormat(s) == s.date * SecondsPerDay + s.time

\* json.dump / json.load of a mapping with string keys: the members of the
\* JSON object
JsonDump(m) == {<<k, m[k]>> : k \in DOMAIN m}
JsonLoad(o) == [k \in {p[1] : p \in o} |-> (CHOOSE p \in o : p[1] = k)[2]]

EnvelopeKeys == {"timestamp", "products"}

Envelope(t, products) ==
    [kind |-> "json", keys |-> EnvelopeKeys,
     timestamp |-> IsoFormat(t), products |-> JsonDump(products)]

NotExpired_Inclusive(ts, t) == ts + ExpiryWindow >= t
NotExpired_Flipped(ts, t) == ts + ExpiryWindow < t
NotExpired(ts, t) == ts + ExpiryWindow > t

\* "except Exception" catches every exception but those that derive from
\* BaseException only
NotAnException ==
    {"BaseException", "SystemExit", "KeyboardInterrupt", "GeneratorExit", "CancelledError"}
Caught_OnlyFileErrors(exc) == exc \in {"OSError", "JSONDecodeError"}
Caught(exc) == exc \notin NotAnException

\* The try block of load_product_cache: the exception it raises ("none" when
\* it runs through) and the value it returns
LoadTry(file, t) ==
    IF file.kind = "missing" THEN [exc |-> "none", value |-> EmptyMapping]
    ELSE IF file.kind = "unreadable" THEN [exc |-> "OSError", value |-> EmptyMapping]
    ELSE IF file.kind = "corrupt" THEN [exc |-> "JSONDecodeError", value |-> EmptyMapping]
    ELSE IF file.kind = "too deep" THEN [exc |-> "RecursionError", value |-> EmptyMapping]
    ELSE IF "timestamp" \notin file.keys THEN [exc |-> "KeyError", value |-> EmptyMapping]
    ELSE IF NotExpired(FromIsoFormat(file.timestamp), t)
         THEN IF "products" \notin file.keys
              THEN [exc |-> "KeyError", value |-> EmptyMapping]
              ELSE [exc |-> "none", value |-> JsonLoad(file.products)]
         ELSE [exc |-> "none", value |-> EmptyMapping]

\* What load_product_cache returns
LoadProductCache(file, t) ==
    LET r == LoadTry(file, t)
    IN  IF r.exc = "none" THEN r.value ELSE EmptyMapping

\* The exception load_product_cache lets through to its caller
LoadEscape(file, t) ==
    LET r == LoadTry(file, t)
    IN  IF r.exc # "none" /\ ~Caught(r.exc) THEN r.exc ELSE "none"

\* The products mappings handed to save_to_cache: category keys, each with
\* a list of product records
CacheKeys     == {"laptops", "smartphones"}
CacheProducts == {[title |-> "t1", price |-> "99", platform |-> "Flipkart"]}
ProductLists  == UNION {[1..n -> CacheProducts] : n \in 0..MaxCached}
Mappings      == UNION {[K -> ProductLists] : K \in SUBSET CacheKeys}

\* save_to_cache(products), the write succeeding
SaveToCache ==
    /\ \E X \in Mappings :
         /\ cacheFile' = Envelope(now, X)
         /\ savedX' = X
    /\ savedAt' = now
    /\ lastOp' = "save"
    /\ lastWrite' = "save"
    /\ raised' = "none"
    /\ UNCHANGED <<now, ticks, products_cache, loadedAt>>
    /\ UNCHANGED <<fetchVars, collectVars>>
    /\ UNCHANGED newVars

\* save_to_cache(products), the write failing: open() fails and the file is
\* as it was, or the dump fails after open() truncated the file.  The
\* exception is logged and swallowed.
SaveToCacheFails ==
    /\ \E exc \in {"OSError", "TypeError"} :
         /\ \/ exc = "OSError" /\ UNCHANGED cacheFile
            \/ cacheFile' = CacheCorrupt
         /\ raised' = IF Caught(exc) THEN "none" ELSE exc
    /\ lastOp' = "savefail"
    /\ lastWrite' = "savefail"
    /\ IF cacheFile'.kind = "json"
       THEN UNCHANGED <<savedX, savedAt>>
       ELSE savedX' = EmptyMapping /\ savedAt' = 0
    /\ UNCHANGED <<now, ticks, products_cache, loadedAt>>
    /\ UNCHANGED <<fetchVars, collectVars>>
    /\ UNCHANGED newVars

\* products_cache = load_product_cache()
LoadCache ==
    /\ raised' = LoadEscape(cacheFile, now)
    /\ products_cache' = IF raised' = "none"
                         THEN LoadProductCache(cacheFile, now)
                         ELSE products_cache
    /\ loadedAt' = now
    /\ lastOp' = "load"
    /\ UNCHANGED <<cacheFile, now, ticks, lastWrite, savedX, savedAt>>
    /\ UNCHANGED <<fetchVars, collectVars>>
    /\ UNCHANGED newVars

\* Something other than save_to_cache changes the file: it is deleted, made
\* unreadable, overwritten with something that is no JSON, or rewritten
\* without one of the keys of the envelope.
DamageFile ==
    /\ \/ cacheFile' \in {CacheMissing, CacheUnreadable, CacheCorrupt, CacheTooDeep} \ {cacheFile}
       \/ /\ cacheFile.kind = "json"
          /\ cacheFile.keys = EnvelopeKeys
          /\ \E k \in EnvelopeKeys : cacheFile' = [cacheFile EXCEPT !.keys = @ \ {k}]
    /\ lastOp' = "damage"
    /\ lastWrite' = "damage"
    /\ IF cacheFile'.kind = "json"
       THEN UNCHANGED <<savedX, savedAt>>
       ELSE savedX' = EmptyMapping /\ savedAt' = 0
    /\ UNCHANGED <<now, ticks, products_cache, loadedAt, raised>>
    /\ UNCHANGED <<fetchVars, collectVars>>
    /\ UNCHANGED newVars

\* Time passes: a second, or a second less than the expiry window
Tick ==
    /\ ticks < MaxTicks
    /\ \E d \in {1, ExpiryWindow - 1} : now' = now + d
    /\ ticks' = ticks + 1
    /\ UNCHANGED <<cacheFile, products_cache, lastOp, lastWrite, savedX, savedAt, loadedAt,
                   raised>>
    /\ UNCHANGED <<fetchVars, collectVars>>
    /\ UNCHANGED newVars

----------------------------------------------------------------------------
(* get_products, extract_product_info, scrape_products *)

PRODUCT_CATEGORIES ==
    <<"laptops", "smartphones", "headphones", "smartwatches", "tablets">>
NumCategories == Len(PRODUCT_CATEGORIES)

\* if not all([title, price, link])
Required(title, price, link) == title # NoMatch /\ price # NoMatch /\ link # NoMatch

\* The try block of extract_product_info for container c at time t: the
\* exception it raises, or the value it returns (None is the empty sequence)
ExtractTry(site, c, t) ==
    LET title       == SelectOne(c, site.fields.title)
        description == SelectOne(c, site.fields.description)
        price       == SelectOne(c, site.fields.price)
        rating      == SelectOne(c, site.fields.rating)
        reviews     == SelectOne(c, site.fields.reviews)
        link        == SelectOne(c, site.fields.link)
        image       == SelectOne(c, site.fields.image)
    IN  IF ~Required(title, price, link)
        THEN [exc |-> "none", value |-> <<>>]
        ELSE IF ~HasAttr(link[1], "href") \/ (image # NoMatch /\ ~HasAttr(image[1], "src"))
        THEN [exc |-> "KeyError", value |-> <<>>]
        ELSE [exc |-> "none", value |->
              << [ title       |-> Strip(title[1].text),
                   description |-> IF description # NoMatch THEN Strip(description[1].text)
                                   ELSE <<>>,
                   price       |-> Strip(price[1].text),
                   rating      |-> IF rating # NoMatch THEN Strip(rating[1].text)
                                   ELSE <<"No rating">>,
                   reviews     |-> IF reviews # NoMatch THEN Strip(reviews[1].text)
                                   ELSE <<"No reviews">>,
                   link        |-> UrlJoin(site.base, AttrVal(link[1], "href")),
                   image       |-> IF image # NoMatch THEN AttrVal(image[1], "src") ELSE <<>>,
                   timestamp   |-> IsoFormat(t),
                   platform    |-> site.name ] >>]

\* extract_product_info: except Exception returns None
ExtractProductInfo(site, c, t) == ExtractTry(site, c, t).value

\* for container in containers: product = ...; if product: products.append
RECURSIVE ExtractAll_StopAtException(_, _, _)
ExtractAll_StopAtException(site, containers, t) ==
    IF containers = <<>> \/ ExtractTry(site, Head(containers), t).exc # "none" THEN <<>>
    ELSE ExtractProductInfo(site, Head(containers), t)
         \o ExtractAll_StopAtException(site, Tail(containers), t)
RECURSIVE ExtractAll(_, _, _)
ExtractAll(site, containers, t) ==
    IF containers = <<>> THEN <<>>
    ELSE ExtractProductInfo(site, Head(containers), t) \o ExtractAll(site, Tail(containers), t)

\* for selector in selectors: the containers of the first selector that
\* matches anything
RECURSIVE Discover_Union(_, _)
Discover_Union(selectors, page) ==
    IF selectors = <<>> THEN <<>>
    ELSE Select(page, Head(selectors)) \o Discover_Union(Tail(selectors), page)
RECURSIVE Discover(_, _)
Discover(selectors, page) ==
    IF selectors = <<>> THEN <<>>
    ELSE LET containers == Select(page, Head(selectors))
         IN  IF containers # <<>> THEN containers ELSE Discover(Tail(selectors), page)

\* get_products from the parse on: soup, selectors, the two loops
ParseProducts(site, html, t) == ExtractAll(site, Discover(site.containers, html), t)

\* get_products: "raises" stands for an exception in its try block outside
\* get_page (setup_session, the HTML parser)
GetProducts(site, answers, raises, t) ==
    IF raises THEN [products |-> <<>>, status |-> 500]
    ELSE LET r == GetPage(answers)
         IN  IF r.status # 200
             THEN [products |-> <<>>, status |-> r.status]
             ELSE [products |-> ParseProducts(site, r.body, t), status |-> r.status]

\* all_products[:num_products]
PySlice_NoTruncate(seq, n) == seq
PySlice(seq, n) ==
    IF n >= 0
    THEN SubSeq(seq, 1, IF n < Len(seq) THEN n ELSE Len(seq))
    ELSE SubSeq(seq, 1, IF Len(seq) + n > 0 THEN Len(seq) + n ELSE 0)

\* Whether the for loop breaks after a category that returned "products",
\* acc being all_products after the extend
BreakAfter_StopOnEmpty(products, acc, n) == products = <<>> \/ Len(acc) >= n
BreakAfter_Exceeds(products, acc, n) == products # <<>> /\ Len(acc) > n
BreakAfter(products, acc, n) == products # <<>> /\ Len(acc) >= n

\* What site p can answer to the search for category number c
CollectAnswers(p, c) ==
    {Exc, Resp(429, SitePage(p, c, 1, FALSE)), Resp(404, SitePage(p, c, 1, FALSE))}
    \cup {Resp(200, SitePage(p, c, n, gap)) : n \in 0..MaxYield, gap \in BOOLEAN}
RetryAnswers(p, c) == {Exc, Resp(429, SitePage(p, c, 1, FALSE))}

\* The answers of one get_page call: those of the attempts it makes
AnswerSeqs(p, c) ==
    UNION { { pre \o <<last>> : pre \in [1..k -> RetryAnswers(p, c)],
                                last \in CollectAnswers(p, c) }
            : k \in 0..(max_retries - 1) }
ConsumedAnswerSeqs(p, c) ==
    { a \in AnswerSeqs(p, c) :
        Len(a) = max_retries \/ HandleAnswer(Len(a) - 1, a[Len(a)]).done }

\* What one get_products call can meet: an exception of its own, or the
\* answers to the attempts of its get_page call
SearchInputs(p, c) ==
    {[raises |-> TRUE, answers |-> <<>>]}
    \cup {[raises |-> FALSE, answers |-> a] : a \in ConsumedAnswerSeqs(p, c)}

\* What one get_products call for category number c can return on site p, for
\* a clock that reads 0 throughout; and the same result for a clock that reads
\* t (the clock shows only in the timestamp of a record)
SearchOutcomes ==
    [k \in Scrapers |-> [c \in 1..NumCategories |->
        { GetProducts(ScraperSite(k), inp.answers, inp.raises, 0) : inp \in SearchInputs(k, c) }]]
AtTime(r, t) ==
    [r EXCEPT !.products = [i \in DOMAIN @ |-> [@[i] EXCEPT !.timestamp = IsoFormat(t)]]]

\* async with await get_scraper(platform) as scraper: the constructor loads
\* the cache, __aenter__ opens the session
ScrapeCall ==
    /\ pc = "idle"
    /\ \E p \in Platforms, n \in 0..MaxTarget :
         /\ platform' = p
         /\ num_products' = n
    /\ products_cache' = LoadProductCache(cacheFile, now)
    /\ session' = "open"
    /\ all_products' = <<>>
    /\ catIdx' = 1
    /\ pc' = "loop"
    /\ UNCHANGED <<calls, result>>
    /\ UNCHANGED <<cacheFile, now, ticks, lastOp, lastWrite, savedX, savedAt, loadedAt,
                   raised>>
    /\ UNCHANGED fetchVars
    /\ UNCHANGED newVars

\* One iteration of "for category in config.PRODUCT_CATEGORIES"
SearchCategory ==
    /\ pc = "loop"
    /\ catIdx <= NumCategories
    /\ \E r0 \in SearchOutcomes[GetScraper(platform)][catIdx] :
         LET r   == AtTime(r0, now)
             acc == IF r.products # <<>> THEN all_products \o r.products ELSE all_products
         IN  /\ calls' = Append(calls, [category |-> PRODUCT_CATEGORIES[catIdx],
                                        products |-> r.products, status |-> r.status])
             /\ all_products' = acc
             /\ IF BreakAfter(r.products, acc, num_products)
                THEN pc' = "break" /\ UNCHANGED catIdx
                ELSE pc' = "loop" /\ catIdx' = catIdx + 1
    /\ UNCHANGED <<platform, num_products, session, result>>
    /\ UNCHANGED <<fetchVars, cacheVars>>
    /\ UNCHANGED newVars

\* __aexit__: if self.session: await self.session.close()
AExit_Leak(sess) == sess
AExit(sess) == IF sess = "none" THEN "none" ELSE "closed"

\* return all_products[:num_products], and __aexit__ closes the session
ScrapeReturn ==
    /\ pc = "break" \/ (pc = "loop" /\ catIdx > NumCategories)
    /\ result' = PySlice(all_products, num_products)
    /\ session' = AExit(session)
    /\ pc' = "done"
    /\ UNCHANGED <<platform, num_products, catIdx, all_products, calls>>
    /\ UNCHANGED <<fetchVars, cacheVars>>
    /\ UNCHANGED newVars

\* An exception that "except Exception" does not catch (the cancellation of
\* the task) is raised at an await of get_products and leaves the for loop:
\* the async with statement runs __aexit__ and the exception goes on to the
\* caller, nothing is returned
ScrapeRaise ==
    /\ pc = "loop"
    /\ catIdx <= NumCategories
    /\ session' = AExit(session)
    /\ pc' = "raised"
    /\ UNCHANGED <<platform, num_products, catIdx, all_products, calls, result>>
    /\ UNCHANGED <<fetchVars, cacheVars>>
    /\ UNCHANGED newVars

----------------------------------------------------------------------------
(* save_to_cache on the same config.CACHE_FILE in two processes (threads
   likewise).  A call has no await, so the calls of one event loop follow one
   another: those are the behaviours in which a writer closes before the other
   opens.  Nothing in the call keeps another process out of the file. *)

Writers == {"w1", "w2"}

\* The first n bytes of the JSON text of writer w's envelope
Bytes(w, n) == [i \in 1..n |-> [w |-> w, i |-> i]]

\* The file before the two calls: a complete envelope of an earlier save
OldDoc == Bytes("old", 2)

Hole == [w |-> "hole", i |-> 0]      \* a byte a write past the end leaves

\* write(chunk) at offset pos of a file holding d: the bytes pos + 1 to
\* pos + Len(chunk) are overwritten, every other byte of the file stays
WriteAt(d, pos, chunk) ==
    LET end == pos + Len(chunk)
    IN  [i \in 1..(IF Len(d) > end THEN Len(d) ELSE end) |->
            IF i > pos /\ i <= end THEN chunk[i - pos]
            ELSE IF i <= Len(d) THEN d[i] ELSE Hole]

\* open(config.CACHE_FILE, 'w'): the file is truncated; no lock is taken
SaveOpen(w) ==
    /\ wpc[w] = "idle"
    /\ \E n \in 1..MaxDocLen : wdoc' = [wdoc EXCEPT ![w] = Bytes(w, n)]
    /\ disk' = <<>>
    /\ wpos' = [wpos EXCEPT ![w] = 0]
    /\ wpc' = [wpc EXCEPT ![w] = "open"]
    /\ UNCHANGED <<seen, rpc, rpos, rbuf>>
    /\ UNCHANGED <<fetchVars, collectVars, cacheVars, extractVars, botVars, sessVars>>

\* json.dump through the buffered file object: one write() call, handed the
\* next bytes of the text, goes to the file at the writer's own offset
SaveWrite(w) ==
    /\ wpc[w] = "open"
    /\ wpos[w] < Len(wdoc[w])
    /\ \E k \in 1..MaxChunkLen :
         /\ wpos[w] + k <= Len(wdoc[w])
         /\ disk' = WriteAt(disk, wpos[w], SubSeq(wdoc[w], wpos[w] + 1, wpos[w] + k))
         /\ wpos' = [wpos EXCEPT ![w] = @ + k]
    /\ UNCHANGED <<wpc, wdoc, seen, rpc, rpos, rbuf>>
    /\ UNCHANGED <<fetchVars, collectVars, cacheVars, extractVars, botVars, sessVars>>

\* the end of the with block, everything written
SaveClose(w) ==
    /\ wpc[w] = "open"
    /\ wpos[w] = Len(wdoc[w])
    /\ wpc' = [wpc EXCEPT ![w] = "closed"]
    /\ UNCHANGED <<disk, wdoc, wpos, seen, rpc, rpos, rbuf>>
    /\ UNCHANGED <<fetchVars, collectVars, cacheVars, extractVars, botVars, sessVars>>

\* load_product_cache in another thread or process: open(config.CACHE_FILE, 'r')
ReadOpen ==
    /\ rpc = "idle"
    /\ rpc' = "reading"
    /\ rpos' = 0
    /\ rbuf' = <<>>
    /\ UNCHANGED <<disk, wpc, wdoc, wpos, seen>>
    /\ UNCHANGED <<fetchVars, collectVars, cacheVars, extractVars, botVars, sessVars>>

\* json.load(f) is f.read(): one read() call after another, each asked for
\* a number of bytes that depends on the size the file had and on what came
\* so far, and returning that many of the bytes the file holds at that moment
\* past the reader's offset, or all of them
ReadMore ==
    /\ rpc = "reading"
    /\ rpos < Len(disk)
    /\ \E k \in 1..(Len(disk) - rpos) :
         /\ rbuf' = rbuf \o SubSeq(disk, rpos + 1, rpos + k)
         /\ rpos' = rpos + k
    /\ UNCHANGED <<disk, wpc, wdoc, wpos, seen, rpc>>
    /\ UNCHANGED <<fetchVars, collectVars, cacheVars, extractVars, botVars, sessVars>>

\* a read() that returns nothing ends f.read(): the text handed to the JSON
\* parser is what the calls returned, one after the other
ReadEof ==
    /\ rpc = "reading"
    /\ rpos >= Len(disk)
    /\ seen' = rbuf
    /\ rpc' = "idle"
    /\ UNCHANGED <<disk, wpc, wdoc, wpos, rpos, rbuf>>
    /\ UNCHANGED <<fetchVars, collectVars, cacheVars, extractVars, botVars, sessVars>>

----------------------------------------------------------------------------
(* get_products on a page already fetched with status 200 *)

\* Sequences without repetition of at most n members of S
InjSeqs(S, n) ==
    UNION { { f \in [1..k -> S] : \A i, j \in 1..k : i # j => f[i] # f[j] } : k \in 0..n }

\* Pages of one product container holding any elements of the site's markup
FieldPages(p) ==
    { << ContainerOf(p, kids) >> :
        kids \in InjSeqs({Markup(p)[k] : k \in DOMAIN Markup(p)}, MaxElems) }

\* A top-level block that matches the site's k-th container selector (none
\* for k = 0) and holds the title t, a price and a link, the link having no
\* href when "broken"
Block(p, k, t, broken) ==
    LET sel == ScraperSite(p).containers[k]
        kids == << [Markup(p).T1 EXCEPT !.text = <<t>>], Markup(p).P,
                   IF broken THEN Markup(p).L0 ELSE Markup(p).L >>
    IN  IF k = 0 THEN Node("div", {"other"}, {}, <<>>, kids)
        ELSE Node("div", sel.classes, sel.attrs, <<>>, kids)

\* Pages of several blocks, the i-th one holding the i-th title
ChainPages(p) ==
    UNION { { [i \in 1..n |-> Block(p, ks[i], Titles[((i - 1) % Len(Titles)) + 1], br[i])] :
                ks \in [1..n -> 0..Len(ScraperSite(p).containers)], br \in [1..n -> BOOLEAN] }
            : n \in 0..MaxBlocks }

\* soup = BeautifulSoup(html, 'html.parser') down to "return products, status"
ParsePage ==
    /\ xpc = "idle"
    /\ \E p \in Scrapers :
         \E html \in FieldPages(p) \cup ChainPages(p) :
            /\ soupSite' = p
            /\ soup' = html
            /\ found' = Discover(ScraperSite(p).containers, html)
            /\ parsed' = [products |-> ParseProducts(ScraperSite(p), html, now), status |-> 200]
    /\ xpc' = "parsed"
    /\ UNCHANGED <<fetchVars, collectVars, cacheVars, concVars, botVars, sessVars>>

----------------------------------------------------------------------------
(* bot.post_products and utils.format_product_message *)

DEFAULT_PRODUCTS_COUNT == 5
MAX_PRODUCTS_COUNT == 10

\* Characters of an argument: decimal digits, a digit that is no decimal
\* (superscript two), a letter, a sign.  A string is a sequence of characters.
AsciiDigits == <<"0", "1", "2", "3", "4", "5", "6", "7", "8", "9">>
ArgChars == {"0", "1", "^2", "a", "-"}

IsDecimalChar(ch) == \E i \in DOMAIN AsciiDigits : AsciiDigits[i] = ch
\* str.isdigit(): not empty, and every character has the digit property
IsDigit(str) == str # <<>> /\ \A i \in DOMAIN str : IsDecimalChar(str[i]) \/ str[i] = "^2"

DigitVal(ch) == (CHOOSE i \in DOMAIN AsciiDigits : AsciiDigits[i] = ch) - 1
\* The value of a string of decimal digits
RECURSIVE ParseInt(_)
ParseInt(str) ==
    IF str = <<>> THEN 0
    ELSE 10 * ParseInt(SubSeq(str, 1, Len(str) - 1)) + DigitVal(str[Len(str)])

\* int(str): surrounding whitespace is dropped, then comes an optional sign,
\* then decimal digits, single underscores allowed between digits; anything
\* else raises ValueError
Unsigned(str) ==
    LET u == Strip(str) IN IF u # <<>> /\ Head(u) \in {"+", "-"} THEN Tail(u) ELSE u
IntRaises(str) ==
    LET u == Unsigned(str)
    IN  \/ u = <<>>
        \/ \E i \in DOMAIN u : ~IsDecimalChar(u[i]) /\ u[i] # "_"
        \/ u[1] = "_" \/ u[Len(u)] = "_"
        \/ \E i \in 1..(Len(u) - 1) : u[i] = "_" /\ u[i + 1] = "_"
PyInt(str) ==
    LET u == Strip(str)
        n == ParseInt(SelectSeq(Unsigned(str), LAMBDA ch : ch # "_"))
    IN  IF u # <<>> /\ Head(u) = "-" THEN 0 - n ELSE n

\* min(n, MAX_PRODUCTS_COUNT)
Cap_None(n) == n
Cap(n) == IF n < MAX_PRODUCTS_COUNT THEN n ELSE MAX_PRODUCTS_COUNT

\* Lines 68-70: the count, or the exception int() raises
CountOf(a) ==
    IF a # <<>> /\ IsDigit(a[1])
    THEN IF IntRaises(a[1]) THEN [exc |-> "ValueError", count |-> DEFAULT_PRODUCTS_COUNT]
         ELSE [exc |-> "none", count |-> Cap(PyInt(a[1]))]
    ELSE [exc |-> "none", count |-> DEFAULT_PRODUCTS_COUNT]

\* format_product_message: the keys it reads, in the order it reads them
FormatKeys == <<"name", "price", "discount", "rating", "site", "url">>
FormatProductMessage(product) ==
    IF \E i \in DOMAIN FormatKeys : FormatKeys[i] \notin DOMAIN product
    THEN [exc |-> "KeyError",
          key |-> FormatKeys[CHOOSE i \in DOMAIN FormatKeys :
                                /\ FormatKeys[i] \notin DOMAIN product
                                /\ \A j \in 1..(i - 1) : FormatKeys[j] \in DOMAIN product],
          text |-> <<>>]
    ELSE [exc |-> "none", key |-> "",
          text |-> << <<"*", product["name"], "*">>,
                      IF product["price"] # <<>> THEN <<"Price:", product["price"]>> ELSE <<>>,
                      IF product["discount"] # <<>> THEN <<"Discount:", product["discount"]>>
                      ELSE <<>>,
                      IF product["rating"] # <<>> THEN <<"Rating:", product["rating"]>> ELSE <<>>,
                      <<"Available on:", product["site"]>>,
                      <<"Buy Now", product["url"]>> >>]

Reply(kind, n) == [kind |-> kind, n |-> n]

\* What an update carries: nothing a handler can answer to; a message; a
\* callback query (with its message); an effective message that is neither
\* (an edited message or a channel post).  update.effective_message is set in
\* all but the first.
UpdateKinds == {"none", "message", "callback_query", "other"}

\* send_message reaches the user if the update has a message or a callback
\* query and reply_text does not raise; otherwise it logs and returns
Delivered(u, ok) == u \in {"message", "callback_query"} /\ ok

\* What scrape_products(num_products = n) returns when Flipkart lists k
\* products for the first category and none for the others
FlipkartListing ==
    [k \in 0..MaxScraped |->
        [products |-> ParseProducts(SiteOf(DefaultPlatform),
                                    SitePage(GetScraper(DefaultPlatform), 1, k, FALSE), 0),
         status |-> 200]]
ScrapeProducts(k, n, t) == PySlice(AtTime(FlipkartListing[k], t).products, n)

BotArgs ==
    {<<>>} \cup { << str >> : str \in UNION { [1..n -> ArgChars] : n \in 1..MaxArgLen } }

\* A handler starts on the next update: the state of the last one is gone
Dispatch(h, u, a) ==
    /\ bpc \in {"idle", "done"}
    /\ handler' = h
    /\ updKind' = u
    /\ args' = a
    /\ requested' = -1
    /\ scraped' = <<>>
    /\ idx' = 0
    /\ sendOk' = <<>>
    /\ sent' = <<>>
    /\ success_count' = 0
    /\ replies' = <<>>

\* await send_message(update, text), the handler going on at "after"
Send(text, after) == bpc' = "reply" /\ pending' = text /\ cont' = after
Finish == bpc' = "done" /\ pending' = Reply("none", 0) /\ cont' = "done"

\* start, up to its send_message
Start ==
    /\ \E u \in UpdateKinds : Dispatch("start", u, <<>>)
    /\ Send(Reply("welcome", 0), "done")
    /\ UNCHANGED <<fetchVars, collectVars, cacheVars, concVars, extractVars, sessVars>>

\* help_command, up to its send_message
HelpCommand ==
    /\ \E u \in UpdateKinds : Dispatch("help_command", u, <<>>)
    /\ Send(Reply("help", 0), "done")
    /\ UNCHANGED <<fetchVars, collectVars, cacheVars, concVars, extractVars, sessVars>>

\* echo: answers only an update whose effective message has a text
Echo ==
    /\ \E u \in UpdateKinds, hasText \in BOOLEAN :
         /\ Dispatch("echo", u, <<>>)
         /\ IF u # "none" /\ hasText
            THEN Send(Reply("about", 0), "done")
            ELSE Finish
    /\ UNCHANGED <<fetchVars, collectVars, cacheVars, concVars, extractVars, sessVars>>

\* post_products, lines 63-72: from the command to the first send_message;
\* what int() raises is caught at line 106
PostProducts ==
    /\ \E u \in UpdateKinds, a \in BotArgs :
         /\ Dispatch("post_products", u, a)
         /\ IF u = "none" THEN Finish
            ELSE IF CountOf(a).exc # "none" THEN Send(Reply("unexpected error", 0), "done")
            ELSE Send(Reply("searching", CountOf(a).count), "scraping")
    /\ UNCHANGED <<fetchVars, collectVars, cacheVars, concVars, extractVars, sessVars>>

\* send_message, lines 43-53: the reply arrives or does not, and the handler
\* goes on either way; after "Searching..." it calls scrape_products
SendMessage ==
    /\ bpc = "reply"
    /\ \E ok \in BOOLEAN :
         replies' = IF Delivered(updKind, ok) THEN Append(replies, pending) ELSE replies
    /\ bpc' = cont
    /\ requested' = IF cont = "scraping" THEN CountOf(args).count ELSE requested
    /\ UNCHANGED <<handler, updKind, args, scraped, idx, sendOk, sent, success_count,
                   pending, cont>>
    /\ UNCHANGED <<fetchVars, collectVars, cacheVars, concVars, extractVars, sessVars>>

\* lines 74-83: scrape_products returns or raises
PostScraped ==
    /\ bpc = "scraping"
    /\ \E k \in 0..MaxScraped, scrapeRaises \in BOOLEAN :
         LET products == ScrapeProducts(k, requested, now)
         IN  IF scrapeRaises
             THEN Send(Reply("failed to fetch", 0), "done") /\ UNCHANGED <<scraped, idx>>
             ELSE IF products = <<>>
             THEN Send(Reply("no products", 0), "done") /\ UNCHANGED <<scraped, idx>>
             ELSE /\ scraped' = products
                  /\ idx' = 1
                  /\ bpc' = "loop"
                  /\ UNCHANGED <<pending, cont>>
    /\ UNCHANGED <<handler, updKind, args, requested, sendOk, sent, success_count, replies>>
    /\ UNCHANGED <<fetchVars, collectVars, cacheVars, concVars, extractVars, sessVars>>

\* lines 86-99, one product: the message is formatted and sent to the
\* channel, then comes the sleep; an exception of either is logged and the
\* loop goes on with the next product
PostOne ==
    /\ bpc \in {"loop", "sleep"}
    /\ idx <= Len(scraped)
    /\ IF bpc = "sleep"
       THEN idx' = idx + 1 /\ bpc' = "loop" /\ UNCHANGED <<sendOk, sent, success_count>>
       ELSE LET m == FormatProductMessage(scraped[idx])
            IN  IF m.exc # "none"
                THEN idx' = idx + 1 /\ bpc' = "loop" /\ UNCHANGED <<sendOk, sent, success_count>>
                ELSE \E ok \in BOOLEAN :
                       /\ sendOk' = Append(sendOk, ok)
                       /\ IF ok
                          THEN /\ sent' = Append(sent, m.text)
                               /\ success_count' = success_count + 1
                               /\ bpc' = "sleep"
                               /\ idx' = idx
                          ELSE /\ idx' = idx + 1
                               /\ bpc' = "loop"
                               /\ UNCHANGED <<sent, success_count>>
    /\ UNCHANGED <<handler, updKind, args, requested, scraped, pending, cont, replies>>
    /\ UNCHANGED <<fetchVars, collectVars, cacheVars, concVars, extractVars, sessVars>>

\* lines 101-104: the report
PostReport ==
    /\ bpc = "loop"
    /\ idx > Len(scraped)
    /\ IF success_count > 0
       THEN Send(Reply("posted", success_count), "done")
       ELSE Send(Reply("failed to post", 0), "done")
    /\ UNCHANGED <<handler, updKind, args, requested, scraped, idx, sendOk, sent,
                   success_count, replies>>
    /\ UNCHANGED <<fetchVars, collectVars, cacheVars, concVars, extractVars, sessVars>>

----------------------------------------------------------------------------
(* setup_session, the requests of get_products, __aexit__ *)

\* What self.ua.random can return
UserAgents == {"ua1", "ua2", "ua3"}

\* if self.session is None
NeedsSession_Always(sess) == TRUE
NeedsSession(sess) == sess = "none"

\* setup_session on an instance whose session, header and construction count
\* are st, self.ua.random returning ua
SetupOn(st, ua) ==
    IF NeedsSession(st.session)
    THEN [session |-> "open", userAgent |-> ua, created |-> st.created + 1]
    ELSE st

SessionState == [session |-> session, userAgent |-> userAgent, created |-> created]

SetupSession ==
    /\ Len(scalls) < MaxCalls
    /\ \E ua \in UserAgents :
         LET st == SetupOn(SessionState, ua)
         IN  /\ session' = st.session
             /\ userAgent' = st.userAgent
             /\ created' = st.created
             /\ firstUA' = IF created = 0 /\ st.created = 1 THEN ua ELSE firstUA
    /\ scalls' = Append(scalls, "setup_session")
    /\ UNCHANGED <<wire, gpc, gattempt, gstatus>>
    /\ UNCHANGED <<pc, platform, num_products, catIdx, all_products, calls, result>>
    /\ UNCHANGED <<fetchVars, cacheVars, concVars, extractVars, botVars>>

\* get_products up to the first await of get_page: setup_session, then the
\* sleep before the first attempt
GetProductsCall ==
    /\ gpc \in {"idle", "cancelled"}
    /\ Len(scalls) < MaxCalls
    /\ \E ua \in UserAgents :
         LET st == SetupOn(SessionState, ua)
         IN  /\ session' = st.session
             /\ userAgent' = st.userAgent
             /\ created' = st.created
             /\ firstUA' = IF created = 0 /\ st.created = 1 THEN ua ELSE firstUA
    /\ scalls' = Append(scalls, "get_products")
    /\ gpc' = "delay"
    /\ gattempt' = 0
    /\ UNCHANGED <<wire, gstatus>>
    /\ UNCHANGED <<pc, platform, num_products, catIdx, all_products, calls, result>>
    /\ UNCHANGED <<fetchVars, cacheVars, concVars, extractVars, botVars>>

\* What get_page does with the answer of an attempt, from the sleep or the
\* request it was suspended in: it returns, or sleeps before the next attempt
GetProductsHandle(ans) ==
    LET h == HandleAnswer(gattempt, ans)
    IN  IF h.done
        THEN gstatus' = h.ret.status /\ gpc' = "idle"
        ELSE gpc' = "backoff" /\ UNCHANGED gstatus

\* The sleep before an attempt is over: self.session.get sends the request
\* with the headers the session has now and the call waits for its answer;
\* on a session closed meanwhile it raises at once and nothing is sent
GetProductsSend ==
    /\ gpc = "delay"
    /\ IF session = "open"
       THEN wire' = Append(wire, userAgent) /\ gpc' = "request" /\ UNCHANGED gstatus
       ELSE GetProductsHandle(Exc) /\ UNCHANGED wire
    /\ UNCHANGED <<userAgent, created, firstUA, scalls, gattempt>>
    /\ UNCHANGED collectVars
    /\ UNCHANGED <<fetchVars, cacheVars, concVars, extractVars, botVars>>

\* The request in flight is answered or fails
GetProductsAnswer ==
    /\ gpc = "request"
    /\ \E ans \in {Exc} \cup {Resp(st, EmptyBody) : st \in HttpStatuses} : GetProductsHandle(ans)
    /\ UNCHANGED <<userAgent, created, firstUA, scalls, wire, gattempt>>
    /\ UNCHANGED collectVars
    /\ UNCHANGED <<fetchVars, cacheVars, concVars, extractVars, botVars>>

\* The sleep after a failed attempt is over: the next attempt starts with its
\* own sleep, or the loop is over and the call returns
GetProductsRetry ==
    /\ gpc = "backoff"
    /\ IF gattempt + 1 < max_retries
       THEN gattempt' = gattempt + 1 /\ gpc' = "delay" /\ UNCHANGED gstatus
       ELSE gstatus' = ExhaustedReturn.status /\ gpc' = "idle" /\ UNCHANGED gattempt
    /\ UNCHANGED <<userAgent, created, firstUA, scalls, wire>>
    /\ UNCHANGED collectVars
    /\ UNCHANGED <<fetchVars, cacheVars, concVars, extractVars, botVars>>

\* The task is cancelled at an await: CancelledError passes both "except
\* Exception" clauses and the call returns nothing
GetProductsCancel ==
    /\ gpc \in {"delay", "request", "backoff"}
    /\ gpc' = "cancelled"
    /\ UNCHANGED <<userAgent, created, firstUA, scalls, wire, gattempt, gstatus>>
    /\ UNCHANGED collectVars
    /\ UNCHANGED <<fetchVars, cacheVars, concVars, extractVars, botVars>>

\* __aexit__: if self.session: await self.session.close()
CloseSession ==
    /\ Len(scalls) < MaxCalls
    /\ session' = AExit(session)
    /\ scalls' = Append(scalls, "__aexit__")
    /\ UNCHANGED <<userAgent, created, firstUA, wire, gpc, gattempt, gstatus>>
    /\ UNCHANGED <<pc, platform, num_products, catIdx, all_products, calls, result>>
    /\ UNCHANGED <<fetchVars, cacheVars, concVars, extractVars, botVars>>

----------------------------------------------------------------------------
(* Initial state *)

FetchInit ==
    /\ fpc = "idle"
    /\ attempt = 0
    /\ trace = <<>>
    /\ ret = NoReturn

CollectInit ==
    /\ pc = "idle"
    /\ platform = DefaultPlatform
    /\ num_products = 5
    /\ session = "none"
    /\ catIdx = 1
    /\ all_products = <<>>
    /\ calls = <<>>
    /\ result = <<>>

CacheInit ==
    /\ cacheFile = CacheMissing
    /\ now = 0
    /\ ticks = 0
    /\ products_cache = EmptyMapping
    /\ lastOp = "none"
    /\ lastWrite = "none"
    /\ savedX = EmptyMapping
    /\ savedAt = 0
    /\ loadedAt = 0
    /\ raised = "none"

ConcInit ==
    /\ disk = OldDoc
    /\ wpc = [w \in Writers |-> "idle"]
    /\ wdoc = [w \in Writers |-> <<>>]
    /\ wpos = [w \in Writers |-> 0]
    /\ seen = OldDoc
    /\ rpc = "idle"
    /\ rpos = 0
    /\ rbuf = <<>>

ExtractInit ==
    /\ xpc = "idle"
    /\ soupSite = "FlipkartScraper"
    /\ soup = <<>>
    /\ found = <<>>
    /\ parsed = [products |-> <<>>, status |-> 0]

BotInit ==
    /\ bpc = "idle"
    /\ handler = "none"
    /\ updKind = "none"
    /\ args = <<>>
    /\ requested = -1
    /\ scraped = <<>>
    /\ idx = 0
    /\ sendOk = <<>>
    /\ sent = <<>>
    /\ success_count = 0
    /\ pending = Reply("none", 0)
    /\ cont = "done"
    /\ replies = <<>>

SessInit ==
    /\ userAgent = "none"
    /\ created = 0
    /\ firstUA = "none"
    /\ scalls = <<>>
    /\ wire = <<>>
    /\ gpc = "idle"
    /\ gattempt = 0
    /\ gstatus = 0

Init == FetchInit /\ CollectInit /\ CacheInit /\ ConcInit /\ ExtractInit /\ BotInit /\ SessInit

SessNext ==
    \/ SetupSession \/ GetProductsCall \/ GetProductsSend \/ GetProductsAnswer
    \/ GetProductsRetry \/ GetProductsCancel \/ CloseSession
SessionSpec == Init /\ [][SessNext]_vars

BotNext ==
    \/ Start \/ HelpCommand \/ Echo \/ PostProducts
    \/ SendMessage \/ PostScraped \/ PostOne \/ PostReport
BotSpec == Init /\ [][BotNext]_vars

ExtractNext == ParsePage
ExtractSpec == Init /\ [][ExtractNext]_vars

ConcNext ==
    \/ \E w \in Writers : SaveOpen(w) \/ SaveWrite(w) \/ SaveClose(w)
    \/ ReadOpen \/ ReadMore \/ ReadEof
ConcSpec == Init /\ [][ConcNext]_vars

CacheNext == SaveToCache \/ SaveToCacheFails \/ LoadCache \/ DamageFile \/ Tick
CacheSpec == Init /\ [][CacheNext]_vars

CollectNext == ScrapeCall \/ SearchCategory \/ ScrapeReturn \/ ScrapeRaise
CollectSpec == Init /\ [][CollectNext]_vars

FetchNext ==
    GetPageCall \/ GetPageSend \/ GetPageAnswer \/ GetPageRetry \/ GetPageExhausted
    \/ GetPageCancel
FetchSpec == Init /\ [][FetchNext]_vars

\* The event loop resumes the coroutine after every sleep and every answer
FetchLiveSpec == Init /\ [][FetchNext]_vars /\ WF_vars(FetchNext)

----------------------------------------------------------------------------
(* Properties of get_page (FetchSpec) *)

\* The answers met by the requests of the call, in order.
Reqs == LET r == SelectSeq(trace, LAMBDA e : e.kind = "request")
        IN  [i \in 1..Len(r) |-> r[i].ans]
Waits == LET w == SelectSeq(trace, LAMBDA e : e.kind = "backoff")
         IN  [i \in 1..Len(w) |-> w[i].secs]

Is(ans, s) == ans.kind = "resp" /\ ans.status = s
Suspended == fpc \in {"delay", "request", "backoff"}
IsOther(ans) == ans.kind = "resp" /\ ans.status # 200 /\ ans.status # 429

\* C1: when the first two attempts answer 429 and the third answers 200,
\* the call goes on to the third attempt, returns the third response's body
\* with status 200, and never issues more than 3 requests.
C1_Retry429Then200 ==
    (Len(Reqs) >= 2 /\ Is(Reqs[1], 429) /\ Is(Reqs[2], 429)) =>
        /\ Len(Reqs) <= 3
        /\ (Len(Reqs) = 2 => (Suspended \/ fpc = "cancelled"))
        /\ (Len(Reqs) = 3 /\ Is(Reqs[3], 200) =>
               /\ fpc = "returned"
               /\ ret = [body |-> Reqs[3].text, status |-> 200])

C1_Witness ==
    /\ fpc = "returned"
    /\ Len(Reqs) = 3
    /\ Is(Reqs[1], 429) /\ Is(Reqs[2], 429) /\ Is(Reqs[3], 200)
    /\ Reqs[3].text # Reqs[1].text
    /\ ret.body = Reqs[3].text

AllRateLimited == Len(Reqs) = max_retries /\ \A i \in 1..Len(Reqs) : Is(Reqs[i], 429)

\* C2 as claimed: when all 3 attempts answer 429 the call returns the empty
\* body with the last observed status, 429.
C2_AsClaimed ==
    (fpc = "returned" /\ AllRateLimited) => ret = [body |-> EmptyBody, status |-> 429]

\* C2 amended: when all 3 attempts answer 429 the call returns (it does not
\* raise) the empty body with the status 500, not the 429 it observed.
C2_Exhausted429Returns500 ==
    /\ (fpc = "returned" /\ AllRateLimited) => ret = [body |-> EmptyBody, status |-> 500]
    /\ (Suspended /\ AllRateLimited) => (fpc = "backoff" /\ ENABLED GetPageExhausted)

C2_Witness ==
    fpc = "returned" /\ AllRateLimited /\ ret.status = 500 /\ ret.body = EmptyBody

\* C3: an attempt answered with a status other than 200 and 429 is the last
\* request of the call, which returns at once the empty body and that status.
C3_OtherStatusReturnsAtOnce ==
    \A i \in 1..Len(Reqs) :
        IsOther(Reqs[i]) =>
            /\ i = Len(Reqs)
            /\ fpc = "returned"
            /\ ret = [body |-> EmptyBody, status |-> Reqs[i].status]

C3_Witness ==
    /\ fpc = "returned"
    /\ Len(Reqs) = 3
    /\ Is(Reqs[3], 503)
    /\ Reqs[3].text # EmptyBody
    /\ ret = [body |-> EmptyBody, status |-> 503]

AllFailed == \A i \in 1..Len(Reqs) : Reqs[i].kind = "exc"

\* C4: when every attempt ends in a transport failure the call makes exactly
\* 3 attempts, sleeps 1 * 2s after the first and 2 * 2s after the second,
\* and returns the empty body with status 500.
C4_AllFailuresReturn500 ==
    /\ (fpc = "returned" /\ AllFailed) =>
          /\ Len(Reqs) = 3
          /\ Waits = <<2, 4>>
          /\ [i \in 1..Len(trace) |-> trace[i].kind] =
                <<"delay", "request", "backoff", "delay", "request", "backoff",
                  "delay", "request">>
          /\ ret = [body |-> EmptyBody, status |-> 500]
    /\ (AllFailed /\ Len(Reqs) < 3) => (fpc # "returned" /\ Len(Waits) = Len(Reqs))

C4_Witness ==
    fpc = "returned" /\ Len(Reqs) = 3 /\ AllFailed /\ ret.status = 500

----------------------------------------------------------------------------
(* Properties of scrape_products (CollectSpec) *)

\* The concatenation of the result lists of the first k get_products calls
RECURSIVE Flatten(_)
Flatten(k) == IF k = 0 THEN <<>> ELSE Flatten(k - 1) \o calls[k].products

Searched == Flatten(Len(calls))
AllEmpty == \A i \in 1..Len(calls) : calls[i].products = <<>>

\* C5 as claimed: for every targetCount >= 0 a category is searched only
\* while the accumulated record count is below targetCount.
C5_AsClaimed ==
    \A i \in 1..Len(calls) : Len(Flatten(i - 1)) < num_products

\* C5 amended: for every targetCount >= 1 a category is searched only while
\* the accumulated record count is below targetCount; with targetCount 0
\* categories are searched until the first one that yields a record.
C5_QuotaStopsSearch ==
    \A i \in 1..Len(calls) :
        Len(Flatten(i - 1)) < (IF num_products >= 1 THEN num_products ELSE 1)

C5_Witness ==
    /\ pc = "done"
    /\ num_products = 5
    /\ Len(calls) = 2
    /\ Len(calls[1].products) = 3
    /\ Len(calls[2].products) = 4
    /\ calls[2].category = PRODUCT_CATEGORIES[2]

\* C6: the returned list has at most targetCount records and is the first
\* min(targetCount, total) records of the searched categories' result lists
\* concatenated in category order.
C6_ResultIsPrefix ==
    pc = "done" =>
        /\ Len(result) <= num_products
        /\ Len(result) = (IF num_products < Len(Searched) THEN num_products ELSE Len(Searched))
        /\ \A i \in 1..Len(result) : result[i] = Searched[i]

C6_Witness ==
    /\ pc = "done"
    /\ num_products >= 2
    /\ Len(Searched) > num_products
    /\ Len(result) = num_products
    /\ \E i, j \in 1..Len(result) : i < j /\ result[i] = result[j]

\* C7: a category whose search fails (status other than 200) or yields no
\* record adds nothing, and the search goes on with the next category; when
\* every category yields nothing the call returns the empty list.
C7_EmptyCategorySkipped ==
    /\ \A i \in 1..Len(calls) :
         /\ calls[i].category = PRODUCT_CATEGORIES[i]
         /\ (calls[i].status # 200 => calls[i].products = <<>>)
         /\ (calls[i].products = <<>> /\ i < NumCategories /\ pc \in {"break", "done"}
               => Len(calls) > i)
    /\ all_products = Searched
    /\ (pc = "loop" => catIdx = Len(calls) + 1)
    /\ (pc = "done" /\ AllEmpty => (result = <<>> /\ Len(calls) = NumCategories))

C7_Witness ==
    /\ pc = "done"
    /\ AllEmpty
    /\ Len(calls) = NumCategories
    /\ calls[1].status = 404
    /\ calls[2].status = 500
    /\ calls[3].status = 200
    /\ result = <<>>

\* C8 as claimed: a run of scrape_products that ends with at least one
\* record has saved those records to the cache, so that a load returns them.
C8_AsClaimed ==
    (pc = "done" /\ result # <<>>) =>
        /\ cacheFile.kind = "json"
        /\ \E k \in DOMAIN LoadProductCache(cacheFile, now) :
              LoadProductCache(cacheFile, now)[k] = result

----------------------------------------------------------------------------
(* Properties of the cache (CacheSpec) *)

\* C9: a load after save_to_cache(X) wrote the file, with no other
\* save_to_cache in between and less than the expiry window later, returns a
\* mapping equal to X.
C9_SaveLoadRoundTrip ==
    (lastOp = "load" /\ lastWrite = "save" /\ loadedAt - savedAt < ExpiryWindow)
        => products_cache = savedX

C9_Witness ==
    /\ lastOp = "load"
    /\ lastWrite = "save"
    /\ loadedAt = savedAt
    /\ savedAt > 0
    /\ DOMAIN savedX = CacheKeys
    /\ savedX["laptops"] # savedX["smartphones"]
    /\ products_cache = savedX

\* C10: a load returns the stored products only while now - timestamp is
\* less than the expiry window of 1 day; at exactly the window and beyond it
\* returns the empty mapping.
C10_ExpiredLoadsEmpty ==
    (lastOp = "load" /\ cacheFile.kind = "json" /\ cacheFile.keys = EnvelopeKeys) =>
        /\ (loadedAt - savedAt < ExpiryWindow => products_cache = savedX)
        /\ (loadedAt - savedAt >= ExpiryWindow => products_cache = EmptyMapping)

C10_Witness ==
    /\ lastOp = "load"
    /\ cacheFile.kind = "json"
    /\ cacheFile.keys = EnvelopeKeys
    /\ savedX # EmptyMapping
    /\ loadedAt - savedAt = ExpiryWindow
    /\ products_cache = EmptyMapping

C10_WitnessOneSecondPast ==
    /\ lastOp = "load"
    /\ cacheFile.kind = "json"
    /\ cacheFile.keys = EnvelopeKeys
    /\ savedX # EmptyMapping
    /\ loadedAt - savedAt = ExpiryWindow + 1
    /\ products_cache = EmptyMapping

\* C11: a load of a missing, unreadable or corrupt cache file, or of an
\* envelope lacking "timestamp" or "products", returns the empty mapping,
\* and neither a load nor a save whose write fails lets an exception through.
C11_CacheFailuresSwallowed ==
    /\ raised = "none"
    /\ (lastOp = "load" /\ (cacheFile.kind # "json" \/ cacheFile.keys # EnvelopeKeys))
          => products_cache = EmptyMapping

C11_Witness ==
    /\ lastOp = "load"
    /\ cacheFile.kind = "json"
    /\ cacheFile.keys = {"timestamp"}
    /\ savedX # EmptyMapping
    /\ loadedAt - savedAt < ExpiryWindow
    /\ products_cache = EmptyMapping
    /\ raised = "none"

C11_WitnessWriteFailure ==
    lastOp = "savefail" /\ cacheFile = CacheCorrupt /\ raised = "none"

----------------------------------------------------------------------------
(* Properties of concurrent saves (ConcSpec) *)

CompleteDocs == {wdoc[w] : w \in {x \in Writers : wpc[x] # "idle"}}

C12_Mixture ==
    /\ \A w \in Writers : wpc[w] = "closed"
    /\ Len(wdoc["w1"]) = 2 /\ Len(wdoc["w2"]) = 1
    /\ disk = <<wdoc["w2"][1], wdoc["w1"][2]>>

\* A reader that started on the old envelope and finished on the tail of a
\* new one: the text it parses is the envelope of neither
C12_TornRead == seen = OldDoc \o <<Bytes("w1", 3)[3]>>

----------------------------------------------------------------------------
(* Properties of the parse of one page (ExtractSpec) *)

XSite == ScraperSite(soupSite)

RECURSIVE Concat(_)
Concat(seqs) == IF seqs = <<>> THEN <<>> ELSE Head(seqs) \o Concat(Tail(seqs))

TextOr(m, default) == IF m # NoMatch THEN Strip(m[1].text) ELSE default

\* The record the documented field rules give for container c: none unless
\* the title, the price and the link (an element with an href) are there,
\* and a default for every other field that is not
DocumentedRecord(c) ==
    LET f     == XSite.fields
        title == SelectOne(c, f.title)
        price == SelectOne(c, f.price)
        link  == SelectOne(c, f.link)
        image == SelectOne(c, f.image)
    IN  IF title = NoMatch \/ price = NoMatch \/ link = NoMatch THEN <<>>
        ELSE IF ~HasAttr(link[1], "href") THEN <<>>
        ELSE << [ title       |-> Strip(title[1].text),
                  description |-> TextOr(SelectOne(c, f.description), <<>>),
                  price       |-> Strip(price[1].text),
                  rating      |-> TextOr(SelectOne(c, f.rating), <<"No rating">>),
                  reviews     |-> TextOr(SelectOne(c, f.reviews), <<"No reviews">>),
                  link        |-> UrlJoin(XSite.base, AttrVal(link[1], "href")),
                  image       |-> IF image # NoMatch /\ HasAttr(image[1], "src")
                                  THEN AttrVal(image[1], "src") ELSE <<>>,
                  timestamp   |-> IsoFormat(now),
                  platform    |-> XSite.name ] >>

\* C13 as claimed: the output list holds, in page order, a record for exactly
\* the containers in which title, price and link were found, with the
\* defaults "No rating", "No reviews", "" and "" for a rating, review count,
\* description or image that is missing.
C13_AsClaimed ==
    xpc = "parsed" =>
        parsed.products = Concat([i \in DOMAIN found |-> DocumentedRecord(found[i])])

\* The match of the first selector, in declared order, that matches anything
\* inside container c
RECURSIVE PriorityMatch(_, _)
PriorityMatch(entries, group) ==
    IF group = <<>> THEN NoMatch
    ELSE LET m == FirstMatch(entries, << Head(group) >>)
         IN  IF m # NoMatch THEN m ELSE PriorityMatch(entries, Tail(group))
PriorityOne(c, group) == PriorityMatch(Descendants(c.el.kids, Append(c.anc, c.el)), group)

\* C14 as claimed: every field of an emitted record comes from the match of
\* the earliest selector of the field's chain that matches anything in the
\* container, wherever the elements sit in the document.
C14_AsClaimed ==
    xpc = "parsed" =>
        \A i \in DOMAIN found :
            LET r == ExtractProductInfo(XSite, found[i], now)
                f == XSite.fields
                link  == PriorityOne(found[i], f.link)
                image == PriorityOne(found[i], f.image)
            IN  r # <<>> =>
                  /\ r[1].title = TextOr(PriorityOne(found[i], f.title), <<>>)
                  /\ r[1].price = TextOr(PriorityOne(found[i], f.price), <<>>)
                  /\ r[1].description = TextOr(PriorityOne(found[i], f.description), <<>>)
                  /\ r[1].rating = TextOr(PriorityOne(found[i], f.rating), <<"No rating">>)
                  /\ r[1].reviews = TextOr(PriorityOne(found[i], f.reviews), <<"No reviews">>)
                  /\ HasAttr(link[1], "href")
                        => r[1].link = UrlJoin(XSite.base, AttrVal(link[1], "href"))
                  /\ (image # NoMatch /\ HasAttr(image[1], "src"))
                        => r[1].image = AttrVal(image[1], "src")

ChainMatches(k) == Select(soup, XSite.containers[k])
NumSelectors == Len(XSite.containers)

\* C15: the containers of a page are all the matches of the first container
\* selector, in declared order, that matches anything, and nothing else (no
\* union with a later selector); when no selector matches, the result is the
\* empty list with the fetch status, not an error.
C15_ContainerChainFirstMatch ==
    xpc = "parsed" =>
        /\ parsed.status = 200
        /\ parsed.products = ExtractAll(XSite, found, now)
        /\ \/ \E k \in 1..NumSelectors :
                /\ ChainMatches(k) # <<>>
                /\ \A j \in 1..(k - 1) : ChainMatches(j) = <<>>
                /\ found = ChainMatches(k)
           \/ /\ \A k \in 1..NumSelectors : ChainMatches(k) = <<>>
              /\ found = <<>>
              /\ parsed.products = <<>>

\* The first selector matches nothing, a later one matches the second block
\* and a still later one the first block: only the second block is used
C15_Witness ==
    /\ xpc = "parsed"
    /\ Len(soup) = 2
    /\ ChainMatches(1) = <<>>
    /\ ChainMatches(2) # <<>> /\ ChainMatches(3) # <<>>
    /\ found = << [el |-> soup[2], anc |-> <<>>] >>
    /\ Len(parsed.products) = 1
    /\ parsed.products[1].title = <<Titles[2]>>

C15_WitnessNoMatch ==
    /\ xpc = "parsed"
    /\ soup # <<>>
    /\ \A k \in 1..NumSelectors : ChainMatches(k) = <<>>
    /\ parsed = [products |-> <<>>, status |-> 200]

Raises(c) == ExtractTry(XSite, c, now).exc # "none"

\* C18: a container whose extraction raises yields no record, and the
\* records of the other containers of the page are returned, in page order,
\* with the status of the page.
C18_ContainerIsolation ==
    xpc = "parsed" =>
        /\ parsed.status = 200
        /\ parsed.products =
              Concat([i \in DOMAIN found |->
                        IF Raises(found[i]) THEN <<>>
                        ELSE ExtractTry(XSite, found[i], now).value])

\* A link without href in the first container, a record from the second
C18_Witness ==
    /\ xpc = "parsed"
    /\ Len(found) = 2
    /\ Raises(found[1])
    /\ ~HasAttr(SelectOne(found[1], XSite.fields.link)[1], "href")
    /\ Len(parsed.products) = 1
    /\ parsed.products[1].title = <<Titles[2]>>

C18_WitnessBrokenLast ==
    /\ xpc = "parsed"
    /\ Len(found) = 2
    /\ Raises(found[2])
    /\ Len(parsed.products) = 1
    /\ parsed.products[1].title = <<Titles[1]>>

----------------------------------------------------------------------------
(* Properties of the /post handler (BotSpec) *)

\* C16 as claimed: when scrape_products returns a non-empty list and Telegram
\* accepts every message, one message per record is posted to the channel and
\* the success count, also the one reported, is the number of records.
C16_AsClaimed ==
    (handler = "post_products" /\ bpc = "done" /\ scraped # <<>>
       /\ \A i \in DOMAIN sendOk : sendOk[i]) =>
        /\ Len(sent) = Len(scraped)
        /\ success_count = Len(scraped)
        /\ pending = Reply("posted", Len(scraped))

\* C17: the number of products asked of the scraper and the number of
\* messages sent never exceed MAX_PRODUCTS_COUNT, and with no argument or an
\* argument that is not all digits the scraper is asked for
\* DEFAULT_PRODUCTS_COUNT.
C17_PostCountCap ==
    /\ requested <= MAX_PRODUCTS_COUNT
    /\ Len(sent) <= MAX_PRODUCTS_COUNT
    /\ Len(scraped) <= MAX_PRODUCTS_COUNT
    /\ (requested # -1 /\ (args = <<>> \/ ~IsDigit(args[1])))
          => requested = DEFAULT_PRODUCTS_COUNT
    /\ handler # "post_products" => requested = -1

\* /post 11 asks the scraper for ten products
C17_Witness ==
    /\ handler = "post_products" /\ bpc = "done"
    /\ args = << <<"1", "1">> >>
    /\ requested = MAX_PRODUCTS_COUNT
    /\ scraped # <<>>

C17_WitnessDefault ==
    /\ handler = "post_products" /\ bpc = "done"
    /\ args = << <<"-", "1">> >>
    /\ requested = DEFAULT_PRODUCTS_COUNT
    /\ scraped # <<>>

\* An edited /post: five products are asked for and the user hears nothing
C17_WitnessNoReply ==
    /\ handler = "post_products" /\ bpc = "done"
    /\ updKind = "other"
    /\ requested = DEFAULT_PRODUCTS_COUNT
    /\ scraped # <<>>
    /\ replies = <<>>

----------------------------------------------------------------------------
(* Pacing of get_page (FetchSpec) *)

\* How many requests the trace holds up to its i-th event
RequestsUpTo(i) == Cardinality({j \in 1..i : trace[j].kind = "request"})

\* C19: every request is immediately preceded by a pre-request delay of 1 to
\* 3 seconds, and a 429 answer to the k-th request is immediately followed by
\* a wait of k * 5 seconds, after which comes the delay of the next attempt.
C19_FetchPacing ==
    \A i \in DOMAIN trace :
        trace[i].kind = "request" =>
            /\ i > 1
            /\ trace[i - 1].kind = "delay"
            /\ trace[i - 1].secs \in 1..3
            /\ Is(trace[i].ans, 429) =>
                  /\ i < Len(trace)
                  /\ trace[i + 1] = BackoffEv(RequestsUpTo(i) * 5)
                  /\ i + 2 <= Len(trace) => trace[i + 2].kind = "delay"

\* Two 429 answers, waits of 5 and 10 seconds, then the third attempt with
\* its own delay
C19_Witness ==
    /\ Len(Reqs) = 3
    /\ Is(Reqs[1], 429) /\ Is(Reqs[2], 429)
    /\ trace[3] = BackoffEv(5) /\ trace[6] = BackoffEv(10)
    /\ trace[7].kind = "delay" /\ trace[8].kind = "request"

----------------------------------------------------------------------------
(* Properties of the session of a scraper instance (SessionSpec) *)

OnlySetupAndGet == \A i \in DOMAIN scalls : scalls[i] \in {"setup_session", "get_products"}

\* C20: over any sequence of setup_session and get_products calls on one
\* instance the session is constructed at most once (exactly once from the
\* first call on), and every request carries the User-Agent chosen at that
\* construction.
C20_SessionSetOnce ==
    /\ created <= 1
    /\ (\E i \in DOMAIN scalls : scalls[i] # "__aexit__") => created = 1
    /\ created = 1 => userAgent = firstUA /\ firstUA \in UserAgents
    /\ \A i \in DOMAIN wire : wire[i] = firstUA
    /\ (OnlySetupAndGet /\ gpc = "idle" /\ \E i \in DOMAIN scalls : scalls[i] = "get_products")
          => wire # <<>>

\* setup_session, a request, setup_session again, more requests
C20_Witness ==
    /\ scalls = <<"setup_session", "get_products", "setup_session", "get_products">>
    /\ gpc = "idle"
    /\ created = 1
    /\ Len(wire) >= 4
    /\ \A i \in DOMAIN wire : wire[i] = firstUA

\* Another task closes the session after the first request of a call: the
\* remaining attempts raise, one request went out and the call returns 500
C20_WitnessClosedMidCall ==
    /\ scalls = <<"get_products", "__aexit__">>
    /\ gpc = "idle"
    /\ Len(wire) = 1
    /\ gstatus = 500

\* __aexit__ runs while the first request is in flight
C20_WitnessClosedInFlight ==
    /\ scalls = <<"get_products", "__aexit__">>
    /\ gpc = "request"
    /\ session = "closed"
    /\ gattempt = 0
    /\ wire = <<firstUA>>

----------------------------------------------------------------------------
(* Termination of get_page (FetchLiveSpec) *)

\* C21: whatever mixture of 200, 429, other statuses and transport failures
\* the attempts meet, a call of get_page ends (it returns, unless its task is
\* cancelled); when it returns it has issued at least 1 and at most 3
\* requests, and a return with a status other than 200 carries the empty body.
C21_GetPageTerminates ==
    /\ [](Len(Reqs) <= max_retries)
    /\ [](fpc = "returned" =>
            /\ Len(Reqs) >= 1
            /\ ret.status # 200 => ret.body = EmptyBody
            /\ ret.body # EmptyBody => Is(Reqs[Len(Reqs)], 200))
    /\ (Suspended ~> fpc \in {"returned", "cancelled"})

\* A 429, a transport failure, then a 404 whose page is not empty: the call
\* returns the empty body with 404 after three requests
C21_Witness ==
    /\ fpc = "returned"
    /\ Len(Reqs) = max_retries
    /\ Is(Reqs[1], 429) /\ Reqs[2] = Exc /\ Is(Reqs[3], 404)
    /\ Reqs[3].text # EmptyBody
    /\ ret = [body |-> EmptyBody, status |-> 404]

----------------------------------------------------------------------------
(* Session lifecycle of scrape_products (CollectSpec) *)

Exited == pc \in {"done", "raised"}

\* C22: the session opened on entering the scraper context is closed however
\* scrape_products is left (quota reached, categories exhausted, an exception
\* escaping the category loop), it is open whenever a search is made, and no
\* search is made once it has been closed.
C22_SessionClosedOnExit ==
    /\ [](Exited => session = "closed")
    /\ [](pc \in {"loop", "break"} => session = "open")
    /\ [][calls' # calls => session = "open" /\ session' = "open"]_vars
    /\ [][session = "closed" => session' = "closed" /\ calls' = calls]_vars

\* An exception leaves the loop after two categories were searched
C22_Witness ==
    /\ pc = "raised"
    /\ Len(calls) = 2
    /\ all_products # <<>>
    /\ result = <<>>
    /\ session = "closed"

C22_WitnessQuota ==
    /\ pc = "done"
    /\ Len(calls) < NumCategories
    /\ Len(result) = num_products /\ num_products > 0
    /\ session = "closed"

C22_WitnessExhausted ==
    /\ pc = "done"
    /\ Len(calls) = NumCategories
    /\ Len(all_products) < num_products
    /\ session = "closed"

====
